---------------------------- MODULE Spec2Model ----------------------------
(***************************************************************************)
(* A model of rnote's rendering pipeline:                                  *)
(*   rnote-engine/src/render.rs  (Image, Svg, USVG_FONTDB; "the engine")   *)
(*   src/render.rs               (Renderer, scene helpers; "the legacy")   *)
(* Every public function is one atomic action: the calls are synchronous   *)
(* and share no state.  The inputs of a call are recorded in the state     *)
(* next to its result so that properties of a call are state predicates.   *)
(***************************************************************************)
EXTENDS Integers, Sequences, FiniteSets, TLC

(***************************************************************************)
(* Bounds of the model.                                                    *)
(***************************************************************************)
\* longest pixel buffer of an enumerated Image
MaxLen == 9
\* number of distinct byte patterns per buffer length
MaxSeed == 1
\* f64 coordinates are multiples of 1/Den
Den == 2
\* largest coordinate (in whole units) of an enumerated rasterization bound
MaxCoord == 2
\* longest sequence handed to a batch operation (merge, images_to_rendernodes, ...)
MaxBatch == 3
\* most fragments merged into one Svg over successive merge calls
MaxMerged == 4
\* most applications of convert_image_bgra_to_rgba to one buffer
MaxApply == 3
\* threads that call simplify concurrently
MaxThreads == 2
\* most legacy Renderers constructed in one process
MaxRenderers == 2
\* most reads counted on one font database
MaxReads == 2

(***************************************************************************)
(* Generic helpers.                                                        *)
(***************************************************************************)
Min(a, b) == IF a <= b THEN a ELSE b
Max(a, b) == IF a >= b THEN a ELSE b

\* all sequences over S of length 0..n
SeqsUpTo(S, n) == UNION {[1..k -> S] : k \in 0..n}

(***************************************************************************)
(* u32 arithmetic.  A u32 operand is an integer below 2^31 here (every     *)
(* enumerated dimension is); a product is computed on base-256 digits,     *)
(* least significant first, so that it is exact beyond 2^31.               *)
(***************************************************************************)
ToDigits(n) == [i \in 1..4 |-> (n \div (256 ^ (i - 1))) % 256]

\* column k (0-based) of the schoolbook product of two 4-digit numbers
MulTerm(a, b, i, k) == IF k - i \in 0..3 THEN a[i + 1] * b[k - i + 1] ELSE 0
MulColumn(a, b, k) ==
    MulTerm(a, b, 0, k) + MulTerm(a, b, 1, k) + MulTerm(a, b, 2, k)
        + MulTerm(a, b, 3, k)

RECURSIVE MulCarry(_, _, _, _)
MulCarry(a, b, k, carry) ==
    IF k > 7 THEN <<>>
    ELSE LET s == MulColumn(a, b, k) + carry
         IN <<s % 256>> \o MulCarry(a, b, k + 1, s \div 256)

\* the exact 8-digit product of two u32 values given as digits
MulDigits(a, b) == MulCarry(a, b, 0, 0)

\* a * b on u32: [overflow |-> the exact product exceeds u32::MAX,
\*                val |-> the digits of the wrapped product]
u32_mul(a, b) ==
    LET p == MulDigits(a, b)
    IN [overflow |-> \E i \in 5..8 : p[i] # 0,
        val |-> SubSeq(p, 1, 4)]

(***************************************************************************)
(* f64 values: finite multiples of 1/Den, the infinities and NaN.          *)
(***************************************************************************)
Fin(v) == [k |-> "fin", v |-> v]
NaN == [k |-> "nan", v |-> 0]
PosInf == [k |-> "inf", v |-> 1]
NegInf == [k |-> "inf", v |-> -1]

\* whole units to a coordinate
Units(n) == Fin(n * Den)

is_finite(a) == a.k = "fin"

\* a > b on f64 (false when either is NaN)
f64_gt(a, b) ==
    CASE a.k = "nan" \/ b.k = "nan" -> FALSE
      [] a.k = "fin" /\ b.k = "fin" -> a.v > b.v
      [] a.k = "inf" /\ b.k = "inf" -> a.v > b.v
      [] a.k = "inf" -> a.v > 0
      [] OTHER -> b.v < 0

\* a + n for a finite n given in 1/Den
f64_add(a, n) == IF a.k = "fin" THEN Fin(a.v + n) ELSE a

\* a - b on f64
f64_sub(a, b) ==
    CASE a.k = "nan" \/ b.k = "nan" -> NaN
      [] a.k = "fin" /\ b.k = "fin" -> Fin(a.v - b.v)
      [] a.k = "inf" /\ b.k = "inf" -> IF a.v = b.v THEN NaN ELSE a
      [] a.k = "inf" -> a
      [] OTHER -> [k |-> "inf", v |-> -b.v]

\* floor and ceil of an integer numerator over Den
FloorDen(v) == (v \div Den) * Den
CeilDen(v) == -(((-v) \div Den) * Den)

f64_floor(a) == IF a.k = "fin" THEN Fin(FloorDen(a.v)) ELSE a
f64_ceil(a) == IF a.k = "fin" THEN Fin(CeilDen(a.v)) ELSE a

\* f64::round of the rational p / q, q > 0: half away from zero
RoundRat(p, q) ==
    IF p >= 0 THEN (2 * p + q) \div (2 * q)
    ELSE -((2 * (-p) + q) \div (2 * q))


(***************************************************************************)
(* Results of a call: anyhow::Result, or an abnormal end of the call.      *)
(*   "Ok" / "Err"  the call returned                                       *)
(*   "Panic"       the call unwound (arithmetic overflow in a build with   *)
(*                 overflow checks)                                        *)
(*   "Undefined"   the call broke the contract of a foreign function       *)
(***************************************************************************)
Ok == [status |-> "Ok", err |-> ""]
Err(e) == [status |-> "Err", err |-> e]
Panic(e) == [status |-> "Panic", err |-> e]
Undefined(e) == [status |-> "Undefined", err |-> e]

(***************************************************************************)
(* Aabb (p2d::bounding_volume::Aabb) and the helpers applied to it.        *)
(***************************************************************************)
Aabb(minx, miny, maxx, maxy) == [mins |-> <<minx, miny>>, maxs |-> <<maxx, maxy>>]

\* Aabb::extents(): maxs - mins
extents(b) == <<f64_sub(b.maxs[1], b.mins[1]), f64_sub(b.maxs[2], b.mins[2])>>

aabb_is_finite(b) == \A i \in 1..2 : is_finite(b.mins[i]) /\ is_finite(b.maxs[i])

\* AabbHelpers::ensure_positive: "force non-negative extents"
ensure_positive(b) ==
    LET sw(i) == f64_gt(b.mins[i], b.maxs[i])
    IN [mins |-> [i \in 1..2 |-> IF sw(i) THEN b.maxs[i] ELSE b.mins[i]],
        maxs |-> [i \in 1..2 |-> IF sw(i) THEN b.mins[i] ELSE b.maxs[i]]]

\* AabbHelpers::ceil: "round up to the next integer boundary" (outwards)
ceil(b) ==
    [mins |-> [i \in 1..2 |-> f64_floor(b.mins[i])],
     maxs |-> [i \in 1..2 |-> f64_ceil(b.maxs[i])]]

\* Aabb::loosened(margin): a margin of `margin` whole units on all sides
loosened(b, margin) ==
    [mins |-> [i \in 1..2 |-> f64_add(b.mins[i], -(margin * Den))],
     maxs |-> [i \in 1..2 |-> f64_add(b.maxs[i], margin * Den)]]

\* AabbHelpers::assert_valid: "fails with InvalidBounds if bounds are
\* non-finite or degenerate"
aabb_assert_valid(b) ==
    IF /\ aabb_is_finite(b)
       /\ \A i \in 1..2 : extents(b)[i].v > 0
    THEN Ok
    ELSE Err("InvalidBounds")

\* Aabb::merge(&mut self, other): the axis-aligned union (finite bounds)
aabb_merge(a, b) ==
    [mins |-> [i \in 1..2 |-> Fin(Min(a.mins[i].v, b.mins[i].v))],
     maxs |-> [i \in 1..2 |-> Fin(Max(a.maxs[i].v, b.maxs[i].v))]]

(***************************************************************************)
(* Rectangle (rnote_compose::shapes::Rectangle): only unrotated rectangles *)
(* are enumerated, so a rectangle is the Aabb it was built from.           *)
(***************************************************************************)
from_p2d_aabb(bounds) == [aabb |-> bounds]
rect_bounds(rect) == rect.aabb

(***************************************************************************)
(* Image (engine).                                                         *)
(***************************************************************************)
R8g8b8a8Premultiplied == "R8g8b8a8Premultiplied"

\* impl Default for Image
ImageDefault ==
    [data |-> <<>>,
     rect |-> from_p2d_aabb(Aabb(Fin(0), Fin(0), Fin(0), Fin(0))),
     pixel_width |-> 0,
     pixel_height |-> 0,
     memory_format |-> R8g8b8a8Premultiplied]

\* 4 * self.pixel_width * self.pixel_height, on u32
image_size_u32(w, h) ==
    LET p1 == u32_mul(ToDigits(4), ToDigits(w))
        p2 == u32_mul(p1.val, ToDigits(h))
    IN [overflow |-> p1.overflow \/ p2.overflow, val |-> p2.val]

\* Image::assert_valid; oc: the build has overflow checks
assert_valid(image, oc) ==
    IF aabb_assert_valid(rect_bounds(image.rect)).status # "Ok"
    THEN aabb_assert_valid(rect_bounds(image.rect))
    ELSE IF image.pixel_width = 0 \/ image.pixel_height = 0
    THEN Err("InvalidImage")
    ELSE LET size == image_size_u32(image.pixel_width, image.pixel_height)
         IN IF oc /\ size.overflow
            THEN Panic("attempt to multiply with overflow")
            ELSE IF ToDigits(Len(image.data)) # size.val
            THEN Err("InvalidImage")
            ELSE Ok

\* the exact value of 4 * w * h is at most len (len < 2^31)
ExactSizeFits(w, h, len) ==
    LET p1 == MulDigits(ToDigits(4), ToDigits(w))
        p2 == MulDigits(SubSeq(p1, 1, 4), ToDigits(h))
    IN /\ \A i \in 5..8 : p1[i] = 0 /\ p2[i] = 0
       /\ p2[4] < 128
       /\ p2[1] + 256 * p2[2] + 65536 * p2[3] + 16777216 * p2[4] <= len

\* image::RgbaImage::from_vec(width, height, buf): None when buf is too short
RgbaImage_from_vec(w, h, buf) ==
    IF ExactSizeFits(w, h, Len(buf))
    THEN [some |-> TRUE, imgbuf |-> [width |-> w, height |-> h, buf |-> buf]]
    ELSE [some |-> FALSE, imgbuf |-> [width |-> 0, height |-> 0, buf |-> <<>>]]

\* Image::to_imgbuf
to_imgbuf(image, oc) ==
    LET v == assert_valid(image, oc)
        r == RgbaImage_from_vec(image.pixel_width, image.pixel_height, image.data)
    IN IF v.status # "Ok" THEN [res |-> v, imgbuf |-> r.imgbuf, built |-> FALSE]
       ELSE IF ~r.some
       THEN [res |-> Err("RgbaImage::from_vec() failed"), imgbuf |-> r.imgbuf,
             built |-> FALSE]
       ELSE [res |-> Ok, imgbuf |-> r.imgbuf, built |-> TRUE]

\* image::DynamicImage::ImageRgba8(imgbuf)
ImageRgba8(imgbuf) ==
    [color |-> "Rgba8", width |-> imgbuf.width, height |-> imgbuf.height,
     buf |-> imgbuf.buf]

\* the codecs of image::ImageOutputFormat that are modelled
Formats == {"Png", "Jpeg"}
Lossless == {"Png"}

\* DynamicImage::write_to(format): a three-byte header (signature, width,
\* height) and the samples.  Png stores all four channels as they are; Jpeg
\* has no alpha channel and quantises the colour samples.
write_to(dyn, format) ==
    IF format = "Png"
    THEN <<137, dyn.width, dyn.height>> \o dyn.buf
    ELSE LET n == dyn.width * dyn.height
             rgb == [i \in 1..(3 * n) |->
                        LET px == (i - 1) \div 3
                            ch == (i - 1) % 3
                        IN (dyn.buf[4 * px + ch + 1] \div 16) * 16]
         IN <<255, dyn.width, dyn.height>> \o rgb

\* Reader::with_guessed_format().decode(): the signature selects the codec;
\* an unknown signature or a truncated payload is a decoding error
decode(bytes) ==
    LET none == [color |-> "Rgba8", width |-> 0, height |-> 0, buf |-> <<>>]
    IN IF Len(bytes) < 3 THEN [res |-> Err("DecodeError"), dyn |-> none]
       ELSE LET w == bytes[2]
                h == bytes[3]
                chans == IF bytes[1] = 137 THEN 4 ELSE 3
                payload == SubSeq(bytes, 4, Len(bytes))
            IN IF bytes[1] \notin {137, 255} \/ Len(payload) # chans * w * h
               THEN [res |-> Err("DecodeError"), dyn |-> none]
               ELSE [res |-> Ok,
                     dyn |-> [color |-> IF chans = 4 THEN "Rgba8" ELSE "Rgb8",
                              width |-> w, height |-> h, buf |-> payload]]

\* DynamicImage::into_rgba8(): Rgb8 gains an opaque alpha channel
into_rgba8(dyn) ==
    IF dyn.color = "Rgba8" THEN dyn.buf
    ELSE [i \in 1..(4 * dyn.width * dyn.height) |->
             LET px == (i - 1) \div 4
                 ch == (i - 1) % 4
             IN IF ch = 3 THEN 255 ELSE dyn.buf[3 * px + ch + 1]]

\* a plausible bug: width and height exchanged
Image_from_dynamic_swapped(dyn) ==
    [data |-> into_rgba8(dyn),
     rect |-> from_p2d_aabb(Aabb(Units(0), Units(0), Units(dyn.height), Units(dyn.width))),
     pixel_width |-> dyn.height,
     pixel_height |-> dyn.width,
     memory_format |-> R8g8b8a8Premultiplied]

\* impl From<image::DynamicImage> for Image
Image_from_dynamic(dyn) ==
    [data |-> into_rgba8(dyn),
     rect |-> from_p2d_aabb(Aabb(Units(0), Units(0), Units(dyn.width), Units(dyn.height))),
     pixel_width |-> dyn.width,
     pixel_height |-> dyn.height,
     memory_format |-> R8g8b8a8Premultiplied]

\* Image::try_from_encoded_bytes
try_from_encoded_bytes(bytes) ==
    LET d == decode(bytes)
    IN IF d.res.status # "Ok" THEN [res |-> d.res, image |-> ImageDefault]
       ELSE [res |-> Ok, image |-> Image_from_dynamic(d.dyn)]

\* Image::into_encoded_bytes
into_encoded_bytes(image, format, oc) ==
    LET v == assert_valid(image, oc)
        b == to_imgbuf(image, oc)
    IN IF v.status # "Ok" THEN [res |-> v, bytes |-> <<>>]
       ELSE IF b.res.status # "Ok" THEN [res |-> b.res, bytes |-> <<>>]
       ELSE [res |-> Ok, bytes |-> write_to(ImageRgba8(b.imgbuf), format)]

(***************************************************************************)
(* Textures and scene nodes (gdk / gsk values).                            *)
(***************************************************************************)
NoTexture == [width |-> 0, height |-> 0, format |-> "", bytes |-> <<>>, stride |-> 0]
NoNode == [kind |-> "None"]

\* gdk::MemoryTexture::new(width, height, format, bytes, stride): GDK demands
\* width > 0, height > 0 and stride * (height - 1) + 4 * width bytes; the
\* callers pass stride = 4 * width
MemoryTexture_new(width, height, format, bytes, stride) ==
    IF width > 0 /\ height > 0 /\ ExactSizeFits(width, height, Len(bytes))
    THEN [res |-> Ok,
          texture |-> [width |-> width, height |-> height, format |-> format,
                       bytes |-> bytes, stride |-> stride]]
    ELSE [res |-> Undefined("gdk_memory_texture_new: precondition"),
          texture |-> NoTexture]

\* Image::to_memtexture
to_memtexture(image, oc) ==
    LET v == assert_valid(image, oc)
        stride == u32_mul(ToDigits(image.pixel_width), ToDigits(4))
    IN IF v.status # "Ok" THEN [res |-> v, texture |-> NoTexture]
       ELSE IF oc /\ stride.overflow
       THEN [res |-> Panic("attempt to multiply with overflow"), texture |-> NoTexture]
       ELSE MemoryTexture_new(image.pixel_width, image.pixel_height,
                              image.memory_format, image.data, image.pixel_width * 4)

\* gsk::TransformNode::new(gsk::TextureNode::new(texture, local_aabb), transform)
TransformNode(texture, rect) ==
    [kind |-> "TransformNode",
     transform |-> rect_bounds(rect).mins,
     child |-> [kind |-> "TextureNode", texture |-> texture,
                bounds |-> extents(rect_bounds(rect))]]

\* Image::to_rendernode
to_rendernode(image, oc) ==
    LET v == assert_valid(image, oc)
        t == to_memtexture(image, oc)
    IN IF v.status # "Ok" THEN [res |-> v, node |-> NoNode]
       ELSE IF t.res.status # "Ok" THEN [res |-> t.res, node |-> NoNode]
       ELSE [res |-> Ok, node |-> TransformNode(t.texture, image.rect)]

\* Image::images_to_rendernodes; calls counts the to_rendernode calls made
RECURSIVE images_to_rendernodes(_, _)
images_to_rendernodes(images, oc) ==
    IF images = <<>> THEN [res |-> Ok, rendernodes |-> <<>>, calls |-> 0]
    ELSE LET n == to_rendernode(Head(images), oc)
         IN IF n.res.status # "Ok"
            THEN [res |-> n.res, rendernodes |-> <<>>, calls |-> 1]
            ELSE LET rest == images_to_rendernodes(Tail(images), oc)
                 IN IF rest.res.status # "Ok"
                    THEN [res |-> rest.res, rendernodes |-> <<>>,
                          calls |-> 1 + rest.calls]
                    ELSE [res |-> Ok,
                          rendernodes |-> <<n.node>> \o rest.rendernodes,
                          calls |-> 1 + rest.calls]

\* a plausible bug: the swap reaches only the first pixel
convert_image_bgra_to_rgba_first(width, height, bytes) ==
    [i \in 1..Len(bytes) |->
        IF i > 4 THEN bytes[i]
        ELSE IF Len(bytes) < 4 THEN bytes[i]
        ELSE IF i = 1 THEN bytes[3]
        ELSE IF i = 3 THEN bytes[1]
        ELSE bytes[i]]

\* convert_image_bgra_to_rgba: in every whole chunk of 4 bytes, bytes 0 and 2
\* change places; chunks_exact_mut leaves a trailing partial chunk alone
convert_image_bgra_to_rgba(width, height, bytes) ==
    LET whole == (Len(bytes) \div 4) * 4
    IN [i \in 1..Len(bytes) |->
           IF i > whole THEN bytes[i]
           ELSE IF (i - 1) % 4 = 0 THEN bytes[i + 2]
           ELSE IF (i - 1) % 4 = 2 THEN bytes[i - 2]
           ELSE bytes[i]]

(***************************************************************************)
(* State.                                                                  *)
(***************************************************************************)
VARIABLES
    overflow_checks, \* the build panics on integer overflow (debug) or wraps (release)
    image,           \* the Image the single-image calls are made on
    call,            \* the last single-image call: [op, format]
    out,             \* its result: [res, bytes, image, texture, node, built]
    encoded,         \* the last into_encoded_bytes: [ok, format, bytes]
    images,          \* the argument of the last images_to_rendernodes
    batch,           \* its result: [res, rendernodes, calls], or the idle value
    bytes0,          \* a pixel buffer as first captured
    bytes,           \* the buffer after `applied` byte-order swaps
    applied,
    svg0,            \* an Svg as constructed
    svg,             \* the Svg after the fragments of `merged` were merged into it
    merged,          \* every fragment merged so far, in order
    simplified,      \* the last simplify call: [op, res, out], or the idle value
    rcall,           \* the last rasterization call: [op, bounds, image_scale, ...]
    rout,            \* its result: [res, image, steps, surface]
    scall,           \* the last scene-assembly call
    sout,            \* its result
    USVG_FONTDB,     \* the static font database: [cell, loads, reads]
    pc,              \* where each thread is in its simplify call
    renderers        \* the legacy Renderers constructed: their font databases

imageVars == <<image, call, out, encoded>>
batchVars == <<images, batch>>
swapVars == <<bytes0, bytes, applied>>
svgVars == <<svg0, svg, merged, simplified>>
rasterVars == <<rcall, rout>>
sceneVars == <<scall, sout>>
fontVars == <<USVG_FONTDB, pc, renderers>>
vars == <<overflow_checks, imageVars, batchVars, swapVars, svgVars, rasterVars,
          sceneVars, fontVars>>

NoCall == [op |-> "none", format |-> ""]
NoOut ==
    [res |-> Ok, bytes |-> <<>>, image |-> ImageDefault, texture |-> NoTexture,
     node |-> NoNode, built |-> FALSE]
NoEncoded == [ok |-> FALSE, format |-> "", bytes |-> <<>>]
NoBatch == [res |-> Ok, rendernodes |-> <<>>, calls |-> -1]
NoSvg == [svg_data |-> <<>>, bounds |-> Aabb(Fin(0), Fin(0), Fin(0), Fin(0))]
Idle == [op |-> "none"]

\* the state of each part of the pipeline before any call on it
ImageIdle == image = ImageDefault /\ call = NoCall /\ out = NoOut /\ encoded = NoEncoded
BatchIdle == images = <<>> /\ batch = NoBatch
SwapIdle == bytes0 = <<>> /\ bytes = <<>> /\ applied = 0
SvgIdle == svg0 = NoSvg /\ svg = NoSvg /\ merged = <<>> /\ simplified = Idle
RasterIdle == rcall = Idle /\ rout = Idle
SceneIdle == scall = Idle /\ sout = Idle

\* once_cell::sync::Lazy before its first access: the initializer has not run
LazyNew == [cell |-> "Incomplete", loads |-> 0, reads |-> 0]
Threads == 1..MaxThreads
FontIdle ==
    /\ USVG_FONTDB = LazyNew
    /\ pc = [t \in Threads |-> "idle"]
    /\ renderers = <<>>

(***************************************************************************)
(* Single-image calls (engine): validation, codecs, textures, nodes.       *)
(***************************************************************************)
\* a pixel buffer of the given length; the bytes differ from one another
ImageData(len, seed) == [i \in 1..len |-> (i * 37 + seed * 101) % 256]

Buffers == {ImageData(len, seed) : len \in 0..MaxLen, seed \in 0..MaxSeed}

\* pixel dimensions: small ones, and two whose product by 4 is 2^32
DimVals == {0, 1, 2, 16384, 65536}

UnitRect == from_p2d_aabb(Aabb(Units(0), Units(0), Units(1), Units(1)))
NaNRect == from_p2d_aabb(Aabb(NaN, Units(0), Units(1), Units(1)))

Images ==
    [data : Buffers, rect : {UnitRect, NaNRect}, pixel_width : DimVals,
     pixel_height : DimVals, memory_format : {R8g8b8a8Premultiplied}]

InitImage ==
    /\ overflow_checks \in BOOLEAN
    /\ image \in Images
    /\ call = NoCall /\ out = NoOut /\ encoded = NoEncoded
    /\ BatchIdle /\ SwapIdle /\ SvgIdle /\ RasterIdle /\ SceneIdle /\ FontIdle

NotImage == <<overflow_checks, batchVars, swapVars, svgVars, rasterVars, sceneVars,
     fontVars>>

Call_assert_valid ==
    /\ call' = [op |-> "assert_valid", format |-> ""]
    /\ out' = [NoOut EXCEPT !.res = assert_valid(image, overflow_checks)]
    /\ UNCHANGED <<image, encoded, NotImage>>

Call_to_imgbuf ==
    /\ call' = [op |-> "to_imgbuf", format |-> ""]
    /\ LET r == to_imgbuf(image, overflow_checks)
       IN out' = [NoOut EXCEPT !.res = r.res, !.bytes = r.imgbuf.buf,
                               !.built = r.built]
    /\ UNCHANGED <<image, encoded, NotImage>>

Call_into_encoded_bytes ==
    \E format \in Formats :
        LET r == into_encoded_bytes(image, format, overflow_checks)
        IN /\ call' = [op |-> "into_encoded_bytes", format |-> format]
           /\ out' = [NoOut EXCEPT !.res = r.res, !.bytes = r.bytes,
                                   !.built = (r.res.status = "Ok")]
           /\ encoded' = [ok |-> r.res.status = "Ok", format |-> format,
                          bytes |-> r.bytes]
           /\ UNCHANGED <<image, NotImage>>

Call_try_from_encoded_bytes ==
    /\ call' = [op |-> "try_from_encoded_bytes", format |-> ""]
    /\ LET r == try_from_encoded_bytes(encoded.bytes)
       IN out' = [NoOut EXCEPT !.res = r.res, !.image = r.image,
                               !.built = (r.res.status = "Ok")]
    /\ UNCHANGED <<image, encoded, NotImage>>

Call_to_memtexture ==
    /\ call' = [op |-> "to_memtexture", format |-> ""]
    /\ LET r == to_memtexture(image, overflow_checks)
       IN out' = [NoOut EXCEPT !.res = r.res, !.texture = r.texture,
                               !.built = (r.res.status = "Ok")]
    /\ UNCHANGED <<image, encoded, NotImage>>

Call_to_rendernode ==
    /\ call' = [op |-> "to_rendernode", format |-> ""]
    /\ LET r == to_rendernode(image, overflow_checks)
       IN out' = [NoOut EXCEPT !.res = r.res, !.node = r.node,
                               !.built = (r.res.status = "Ok")]
    /\ UNCHANGED <<image, encoded, NotImage>>

NextImage ==
    \/ Call_assert_valid
    \/ Call_to_imgbuf
    \/ Call_into_encoded_bytes
    \/ Call_try_from_encoded_bytes
    \/ Call_to_memtexture
    \/ Call_to_rendernode

SpecImage == InitImage /\ [][NextImage]_vars

(***************************************************************************)
(* Batch conversion (engine): Image::images_to_rendernodes.                *)
(***************************************************************************)
\* two valid images, and images that break one invariant each
Valid1x1 ==
    [data |-> ImageData(4, 0), rect |-> UnitRect, pixel_width |-> 1,
     pixel_height |-> 1, memory_format |-> R8g8b8a8Premultiplied]
Valid2x1 ==
    [data |-> ImageData(8, 1), rect |-> UnitRect, pixel_width |-> 2,
     pixel_height |-> 1, memory_format |-> R8g8b8a8Premultiplied]
ShortBuffer == [Valid1x1 EXCEPT !.data = ImageData(3, 0)]
BadBounds == [Valid1x1 EXCEPT !.rect = NaNRect]
\* 4 * 65536 * 16384 = 2^32 bytes are due, none are there
HugeEmpty ==
    [data |-> <<>>, rect |-> UnitRect, pixel_width |-> 65536,
     pixel_height |-> 16384, memory_format |-> R8g8b8a8Premultiplied]

BatchSamples == {Valid1x1, Valid2x1, ShortBuffer, BadBounds, HugeEmpty}

InitBatch ==
    /\ overflow_checks \in BOOLEAN
    /\ images = <<>> /\ batch = NoBatch
    /\ ImageIdle /\ SwapIdle /\ SvgIdle /\ RasterIdle /\ SceneIdle /\ FontIdle

NotBatch == <<overflow_checks, imageVars, swapVars, svgVars, rasterVars, sceneVars,
     fontVars>>

Call_images_to_rendernodes ==
    \E arg \in SeqsUpTo(BatchSamples, MaxBatch) :
        /\ images' = arg
        /\ batch' = images_to_rendernodes(arg, overflow_checks)
        /\ UNCHANGED NotBatch

NextBatch == Call_images_to_rendernodes

SpecBatch == InitBatch /\ [][NextBatch]_vars

(***************************************************************************)
(* The byte-order swap applied to a captured buffer, repeatedly.           *)
(***************************************************************************)
SwapBuffers == Buffers \cup SeqsUpTo({0, 255}, MaxLen)

InitSwap ==
    /\ overflow_checks = FALSE
    /\ bytes0 \in SwapBuffers
    /\ bytes = bytes0
    /\ applied = 0
    /\ ImageIdle /\ BatchIdle /\ SvgIdle /\ RasterIdle /\ SceneIdle /\ FontIdle

NotSwap == <<overflow_checks, imageVars, batchVars, svgVars, rasterVars, sceneVars,
     fontVars>>

Call_convert_image_bgra_to_rgba ==
    /\ applied < MaxApply
    /\ bytes' = convert_image_bgra_to_rgba(0, 0, bytes)
    /\ applied' = applied + 1
    /\ UNCHANGED <<bytes0, NotSwap>>

NextSwap == Call_convert_image_bgra_to_rgba

SpecSwap == InitSwap /\ [][NextSwap]_vars

(***************************************************************************)
(* Svg (engine).  A String is a sequence of characters.                    *)
(***************************************************************************)
\* a plausible bug: the bounds are overwritten instead of united
RECURSIVE merge_overwriting(_, _)
merge_overwriting(self, other) ==
    IF other = <<>> THEN self
    ELSE merge_overwriting(
             [svg_data |-> self.svg_data \o <<"\n">> \o Head(other).svg_data,
              bounds |-> Head(other).bounds],
             Tail(other))

\* Svg::merge: for svg in other { svg_data += "\n" + svg.svg_data;
\*                               bounds.merge(&svg.bounds) }
RECURSIVE merge(_, _)
merge(self, other) ==
    IF other = <<>> THEN self
    ELSE merge([svg_data |-> self.svg_data \o <<"\n">> \o Head(other).svg_data,
                bounds |-> aabb_merge(self.bounds, Head(other).bounds)],
               Tail(other))

\* fragments with different markup and overlapping, nested and disjoint bounds
Fragments ==
    { [svg_data |-> <<"a">>,
       bounds |-> Aabb(Units(0), Units(0), Units(1), Units(1))],
      [svg_data |-> <<"b", "c">>,
       bounds |-> Aabb(Fin(-1), Units(1), Units(MaxCoord), Units(MaxCoord))],
      [svg_data |-> <<>>,
       bounds |-> Aabb(Units(-MaxCoord), Fin(1), Units(0), Units(1))],
      [svg_data |-> <<"d">>,
       bounds |-> Aabb(Units(1), Units(-1), Units(MaxCoord + 1), Units(0))] }

InitSvg ==
    /\ overflow_checks = FALSE
    /\ svg0 \in Fragments
    /\ svg = svg0
    /\ merged = <<>>
    /\ simplified = Idle
    /\ ImageIdle /\ BatchIdle /\ SwapIdle /\ RasterIdle /\ SceneIdle /\ FontIdle

NotSvg == <<overflow_checks, imageVars, batchVars, swapVars, rasterVars, sceneVars,
     fontVars>>

Call_merge ==
    \E other \in SeqsUpTo(Fragments, MaxBatch) :
        /\ Len(merged) + Len(other) <= MaxMerged
        /\ svg' = merge(svg, other)
        /\ merged' = merged \o other
        /\ UNCHANGED <<svg0, simplified, NotSvg>>

NextSvg == Call_merge

SpecSvg == InitSvg /\ [][NextSvg]_vars

(***************************************************************************)
(* Svg::simplify.  Markup is a sequence of tokens; a document may begin    *)
(* with the xml header token.                                              *)
(***************************************************************************)
XmlHeader == "<?xml?>"

\* rnote_compose::utils::remove_xml_header: the markup without its xml header
remove_xml_header(markup) ==
    IF markup # <<>> /\ Head(markup) = XmlHeader THEN Tail(markup) ELSE markup

\* Lazy::force on the static font database by a single caller: the first
\* access runs the initializer, later ones find the cell complete
Lazy_forced(lazy) ==
    IF lazy.cell = "Complete" THEN lazy
    ELSE [lazy EXCEPT !.cell = "Complete", !.loads = @ + 1]

\* a plausible bug: the bounds are re-based before the parser has succeeded
simplify_rebasing_first(self, lazy, parsed, written) ==
    LET simplified_bounds ==
            Aabb(Fin(0), Fin(0), extents(self.bounds)[1], extents(self.bounds)[2])
    IN IF ~parsed
       THEN [res |-> Err("ExternalRenderError"),
             self |-> [self EXCEPT !.bounds = simplified_bounds], lazy |-> lazy]
       ELSE [res |-> Ok,
             self |-> [svg_data |-> remove_xml_header(written),
                       bounds |-> simplified_bounds],
             lazy |-> [Lazy_forced(lazy) EXCEPT !.reads = @ + 1]]

\* Svg::simplify.  parsed: whether usvg::Tree::from_str accepts the wrapped
\* markup; written: what usvg_tree.to_string gives back
simplify(self, lazy, parsed, written) ==
    LET simplified_bounds ==
            Aabb(Fin(0), Fin(0), extents(self.bounds)[1], extents(self.bounds)[2])
    IN IF ~parsed
       THEN [res |-> Err("ExternalRenderError"), self |-> self, lazy |-> lazy]
       ELSE [res |-> Ok,
             self |-> [svg_data |-> remove_xml_header(written),
                       bounds |-> simplified_bounds],
             lazy |-> [Lazy_forced(lazy) EXCEPT !.reads = @ + 1]]

\* what the serializer may give back: with and without the xml header
Written ==
    { <<XmlHeader, "svg">>, <<"svg", "path">>, <<XmlHeader>> }

\* the fragments simplify is called on: single ones and merged ones
Simplified == Fragments \cup {merge(f, <<g>>) : f \in Fragments, g \in Fragments}

InitSimplify ==
    /\ overflow_checks = FALSE
    /\ svg0 \in Simplified
    /\ svg = svg0
    /\ merged = <<>>
    /\ simplified = Idle
    /\ ImageIdle /\ BatchIdle /\ SwapIdle /\ RasterIdle /\ SceneIdle /\ FontIdle

NotSimplify ==
    <<overflow_checks, imageVars, batchVars, swapVars, rasterVars, sceneVars>>

Call_simplify ==
    \E parsed \in BOOLEAN, written \in Written :
        LET r == simplify(svg, USVG_FONTDB, parsed, written)
        IN /\ USVG_FONTDB.reads < MaxReads
           /\ svg0' = svg
           /\ svg' = r.self
           /\ USVG_FONTDB' = r.lazy
           /\ simplified' = [op |-> "simplify", res |-> r.res, parsed |-> parsed,
                             written |-> written]
           /\ UNCHANGED <<merged, pc, renderers, NotSimplify>>

NextSimplify == Call_simplify

SpecSimplify == InitSimplify /\ [][NextSimplify]_vars

(***************************************************************************)
(* Rasterization.  A call is one action; `steps` lists, in order, what it  *)
(* did, and `surface` is the cairo surface it created, if any.             *)
(***************************************************************************)
\* a scale factor n / d, d > 0
Scale(n, d) == [n |-> n, d |-> d]

\* (extent * image_scale).round() for a finite extent
scaled_round(extent, scale) == RoundRat(extent.v * scale.n, Den * scale.d)

\* f64 `as u32` of a rounded finite value below 2^31: negative values give 0
as_u32(x) == IF x < 0 THEN 0 ELSE x

NoSurface == [created |-> FALSE, width |-> 0, height |-> 0, data |-> <<>>]
NoImage == [none |-> TRUE]
NoRoot == [wrapped |-> FALSE]

\* the pixels of a cairo ARgb32 surface in memory order: B, G, R, A
ARgb32Data(width, height) ==
    [i \in 1..(4 * width * height) |-> <<"B", "G", "R", "A">>[((i - 1) % 4) + 1]]

\* cairo::ImageSurface::create(Format::ARgb32, width, height): cairo rejects a
\* negative or too large size; a size of 0 is a valid (empty) surface
ImageSurface_create(width, height) ==
    IF width < 0 \/ height < 0 \/ width > 32767 \/ height > 32767
    THEN [res |-> Err("SurfaceAllocationFailed"), surface |-> NoSurface]
    ELSE [res |-> Ok,
          surface |-> [created |-> TRUE, width |-> width, height |-> height,
                       data |-> ARgb32Data(width, height)]]

\* a plausible bug: an empty surface hands out an empty buffer
ImageSurface_data_unchecked(surface) == [res |-> Ok, data |-> surface.data]

\* ImageSurface::data(): fails when the surface has no pixel memory
ImageSurface_data(surface) ==
    IF surface.width = 0 \/ surface.height = 0
    THEN [res |-> Err("SurfaceDataError"), data |-> <<>>]
    ELSE [res |-> Ok, data |-> surface.data]

\* what a call produced
Rout(res, img, steps, surface, root) ==
    [res |-> res, image |-> img, steps |-> steps, surface |-> surface,
     root |-> root]

\* bounds.ensure_positive(); bounds = bounds.ceil().loosened(1.0);
normalized(bounds) == loosened(ceil(ensure_positive(bounds)), 1)
NormSteps == <<"ensure_positive", "ceil", "loosened", "assert_valid">>

\* a plausible bug: the bounds are checked only after the surface is drawn on
rasterize_late_check(pre, root, draw, bounds, image_scale) ==
    LET valid == aabb_assert_valid(bounds)
        width_scaled == as_u32(scaled_round(extents(bounds)[1], image_scale))
        height_scaled == as_u32(scaled_round(extents(bounds)[2], image_scale))
        created == ImageSurface_create(width_scaled, height_scaled)
        s3 == pre \o <<"ensure_positive", "ceil", "loosened", "surface_create",
                       "context_new", "scale", "translate">> \o draw.steps
    IN IF created.res.status # "Ok"
       THEN Rout(created.res, NoImage, pre, NoSurface, root)
       ELSE Rout(IF valid.status # "Ok" THEN valid ELSE draw.res, NoImage,
                 s3 \o <<"assert_valid">>, created.surface, root)

\* the part gen_image_from_svg and gen_with_cairo share: from the normalized
\* bounds on.  draw: [steps, res], the steps made inside the context's scope
\* and whether they succeeded; pre: the steps made before; root: the root
\* element wrapped around the fragment, if any.
rasterize(pre, root, draw, bounds, image_scale) ==
    LET valid == aabb_assert_valid(bounds)
        width_scaled == as_u32(scaled_round(extents(bounds)[1], image_scale))
        height_scaled == as_u32(scaled_round(extents(bounds)[2], image_scale))
        created == ImageSurface_create(width_scaled, height_scaled)
        s1 == pre \o NormSteps
        s2 == s1 \o <<"surface_create">>
        s3 == s2 \o <<"context_new", "scale", "translate">> \o draw.steps
        s4 == s3 \o <<"flush", "data">>
        captured == ImageSurface_data(created.surface)
    IN IF valid.status # "Ok" THEN Rout(valid, NoImage, s1, NoSurface, root)
       ELSE IF created.res.status # "Ok"
       THEN Rout(created.res, NoImage, s2, NoSurface, root)
       ELSE IF draw.res.status # "Ok"
       THEN Rout(draw.res, NoImage, s3, created.surface, root)
       ELSE IF captured.res.status # "Ok"
       THEN Rout(captured.res, NoImage, s4, created.surface, root)
       ELSE Rout(Ok,
                 [data |-> convert_image_bgra_to_rgba(width_scaled, height_scaled,
                                                      captured.data),
                  rect |-> from_p2d_aabb(bounds),
                  pixel_width |-> width_scaled,
                  pixel_height |-> height_scaled,
                  memory_format |-> R8g8b8a8Premultiplied],
                 s4 \o <<"convert_image_bgra_to_rgba">>,
                 created.surface, root)

\* the draw procedures: what runs inside the context's scope, and its outcome
\* (the outcomes of the foreign renderers and of the caller's closure are
\* inputs: "ok", or the step that failed)
SvgDraw(outcome) ==
    IF outcome = "load_err"
    THEN [steps |-> <<"rsvg_load">>, res |-> Err("ExternalRenderError")]
    ELSE IF outcome = "draw_err"
    THEN [steps |-> <<"rsvg_load", "render_document">>,
          res |-> Err("ExternalRenderError")]
    ELSE [steps |-> <<"rsvg_load", "render_document">>, res |-> Ok]

CairoDraw(outcome) ==
    [steps |-> <<"draw_func">>,
     res |-> IF outcome = "ok" THEN Ok ELSE Err("DrawError")]

PietDraw(outcome) ==
    IF outcome = "draw_err"
    THEN [steps |-> <<"piet_context_new", "draw_func">>, res |-> Err("DrawError")]
    ELSE IF outcome = "finish_err"
    THEN [steps |-> <<"piet_context_new", "draw_func", "piet_finish">>,
          res |-> Err("DrawError")]
    ELSE [steps |-> <<"piet_context_new", "draw_func", "piet_finish">>, res |-> Ok]

\* a plausible bug: the margin is left out
gen_image_from_svg_no_margin(svg_arg, bounds, image_scale, outcome) ==
    rasterize(<<"wrap_svg_root">>,
              [wrapped |-> TRUE, bounds |-> bounds, viewbox |-> bounds],
              SvgDraw(outcome), ceil(ensure_positive(bounds)), image_scale)

\* Image::gen_image_from_svg: the root element is wrapped around the fragment
\* with the bounds as passed in, then the bounds are normalized
gen_image_from_svg(svg_arg, bounds, image_scale, outcome) ==
    rasterize(<<"wrap_svg_root">>,
              [wrapped |-> TRUE, bounds |-> bounds, viewbox |-> bounds],
              SvgDraw(outcome), normalized(bounds), image_scale)

\* Image::gen_with_cairo
gen_with_cairo(draw, bounds, image_scale) ==
    rasterize(<<>>, NoRoot, draw, normalized(bounds), image_scale)

\* Image::gen_with_piet
gen_with_piet(outcome, bounds, image_scale) ==
    gen_with_cairo(PietDraw(outcome), bounds, image_scale)

\* Image::try_from_cairo_surface: the caller's surface is read as it is
try_from_cairo_surface(surface, bounds) ==
    LET width == as_u32(surface.width)
        height == as_u32(surface.height)
        captured == ImageSurface_data(surface)
    IN IF captured.res.status # "Ok"
       THEN Rout(captured.res, NoImage, <<"data">>, surface, NoRoot)
       ELSE Rout(Ok,
                 [data |-> convert_image_bgra_to_rgba(width, height, captured.data),
                  rect |-> from_p2d_aabb(bounds),
                  pixel_width |-> width,
                  pixel_height |-> height,
                  memory_format |-> R8g8b8a8Premultiplied],
                 <<"data", "convert_image_bgra_to_rgba">>, surface, NoRoot)

(***************************************************************************)
(* Rasterization (legacy): Renderer::gen_image and its two backends.       *)
(***************************************************************************)
\* the steps of rendering svgs 1..n in turn, the fail_at-th failing to load
\* (fail_at = 0: none fails)
RECURSIVE SvgSteps(_, _, _, _)
SvgSteps(k, n, fail_at, each) ==
    IF k > n THEN <<>>
    ELSE IF k = fail_at THEN <<each[1]>>
    ELSE each \o SvgSteps(k + 1, n, fail_at, each)

\* the pixels of a tiny_skia::Pixmap in memory order: R, G, B, A
PixmapData(width, height) ==
    [i \in 1..(4 * width * height) |-> <<"R", "G", "B", "A">>[((i - 1) % 4) + 1]]

LegacyImage(data, bounds, width, height, format) ==
    [data |-> data, bounds |-> bounds, data_width |-> width,
     data_height |-> height, memory_format |-> format]

\* Renderer::gen_image_librsvg
gen_image_librsvg(zoom, nsvgs, fail_at, bounds) ==
    LET width_scaled == scaled_round(extents(bounds)[1], zoom)
        height_scaled == scaled_round(extents(bounds)[2], zoom)
        created == ImageSurface_create(width_scaled, height_scaled)
        s1 == <<"surface_create">>
        s2 == s1 \o <<"context_new">>
                 \o SvgSteps(1, nsvgs, fail_at,
                             <<"rsvg_load", "render_document", "stroke">>)
        s3 == s2 \o <<"flush", "data">>
        captured == ImageSurface_data(created.surface)
    IN IF created.res.status # "Ok"
       THEN Rout(created.res, NoImage, s1, NoSurface, NoRoot)
       ELSE IF fail_at # 0
       THEN Rout(Err("ExternalRenderError"), NoImage, s2, created.surface, NoRoot)
       ELSE IF captured.res.status # "Ok"
       THEN Rout(captured.res, NoImage, s3, created.surface, NoRoot)
       ELSE Rout(Ok,
                 LegacyImage(captured.data, bounds, width_scaled, height_scaled,
                             "B8g8r8a8Premultiplied"),
                 s3, created.surface, NoRoot)

\* tiny_skia::Pixmap::new(width, height) after `as u32`: None for a zero size
\* and for a size that does not fit (a negative i32 becomes a huge u32)
Pixmap_new(width, height) ==
    IF width <= 0 \/ height <= 0
    THEN [some |-> FALSE, surface |-> NoSurface]
    ELSE [some |-> TRUE,
          surface |-> [created |-> TRUE, width |-> width, height |-> height,
                       data |-> PixmapData(width, height)]]

\* Renderer::gen_image_resvg
gen_image_resvg(zoom, nsvgs, fail_at, bounds) ==
    LET width_scaled == scaled_round(extents(bounds)[1], zoom)
        height_scaled == scaled_round(extents(bounds)[2], zoom)
        pixmap == Pixmap_new(width_scaled, height_scaled)
        s1 == <<"pixmap_new">>
        s2 == s1 \o SvgSteps(1, nsvgs, fail_at, <<"usvg_parse", "resvg_render">>)
    IN IF ~pixmap.some
       THEN Rout(Err("SurfaceAllocationFailed"), NoImage, s1, NoSurface, NoRoot)
       ELSE IF fail_at # 0
       THEN Rout(Err("ExternalRenderError"), NoImage, s2, pixmap.surface, NoRoot)
       ELSE Rout(Ok,
                 LegacyImage(pixmap.surface.data, bounds, width_scaled,
                             height_scaled, "R8g8b8a8Premultiplied"),
                 s2 \o <<"pixmap_data">>, pixmap.surface, NoRoot)

\* Renderer::gen_image
gen_image(backend, zoom, nsvgs, fail_at, bounds) ==
    IF backend = "Librsvg" THEN gen_image_librsvg(zoom, nsvgs, fail_at, bounds)
    ELSE gen_image_resvg(zoom, nsvgs, fail_at, bounds)

(***************************************************************************)
(* The rasterization calls, on enumerated bounds and scale factors.        *)
(***************************************************************************)
\* [lo, hi] on one axis: degenerate, unit, fractional, reversed, the span of
\* 10 units, and three that are not finite
FiniteIntervals ==
    { <<Units(0), Units(0)>>, <<Units(0), Units(1)>>, <<Fin(1), Units(MaxCoord)>>,
      <<Units(1), Fin(-1)>>, <<Units(0), Units(10)>> }
Intervals ==
    FiniteIntervals \cup { <<NaN, Units(1)>>, <<NegInf, PosInf>>, <<Units(0), PosInf>> }

BoundsOver(I) == {Aabb(x[1], y[1], x[2], y[2]) : x \in I, y \in I}

\* pixels per document unit: 1/10, 1/2, 1, 2
Scales == {Scale(1, 10), Scale(1, 2), Scale(1, 1), Scale(2, 1)}

Rcall(op, bounds, image_scale, outcome) ==
    [op |-> op, bounds |-> bounds, image_scale |-> image_scale, outcome |-> outcome]

InitRaster ==
    /\ overflow_checks = FALSE
    /\ rcall \in {Rcall("none", b, sc, "") : b \in BoundsOver(Intervals), sc \in Scales}
    /\ rout = Idle
    /\ ImageIdle /\ BatchIdle /\ SwapIdle /\ SvgIdle /\ SceneIdle /\ FontIdle

NotRaster == <<overflow_checks, imageVars, batchVars, swapVars, svgVars, sceneVars,
     fontVars>>

Call_gen_image_from_svg ==
    \E outcome \in {"ok", "load_err", "draw_err"} :
        /\ rcall' = [rcall EXCEPT !.op = "gen_image_from_svg", !.outcome = outcome]
        /\ rout' = gen_image_from_svg(NoSvg, rcall.bounds, rcall.image_scale, outcome)
        /\ UNCHANGED NotRaster

Call_gen_with_cairo ==
    \E outcome \in {"ok", "draw_err"} :
        /\ rcall' = [rcall EXCEPT !.op = "gen_with_cairo", !.outcome = outcome]
        /\ rout' = gen_with_cairo(CairoDraw(outcome), rcall.bounds, rcall.image_scale)
        /\ UNCHANGED NotRaster

Call_gen_with_piet ==
    \E outcome \in {"ok", "draw_err", "finish_err"} :
        /\ rcall' = [rcall EXCEPT !.op = "gen_with_piet", !.outcome = outcome]
        /\ rout' = gen_with_piet(outcome, rcall.bounds, rcall.image_scale)
        /\ UNCHANGED NotRaster

\* the legacy renderer is given finite bounds; outcome: <<backend, number of
\* svgs, the svg that fails to load or 0>>
Call_gen_image ==
    \E backend \in {"Librsvg", "Resvg"}, nsvgs \in 0..MaxBatch :
        \E fail_at \in 0..nsvgs :
            /\ aabb_is_finite(rcall.bounds)
            /\ rcall' = [rcall EXCEPT !.op = "gen_image",
                                      !.outcome = <<backend, nsvgs, fail_at>>]
            /\ rout' = gen_image(backend, rcall.image_scale, nsvgs, fail_at,
                                 rcall.bounds)
            /\ UNCHANGED NotRaster

\* the surface is the caller's: outcome is its <<width, height>>
Call_try_from_cairo_surface ==
    \E w \in 0..MaxCoord, h \in 0..MaxCoord :
        /\ rcall' = [rcall EXCEPT !.op = "try_from_cairo_surface",
                                  !.outcome = <<w, h>>]
        /\ rout' = try_from_cairo_surface(ImageSurface_create(w, h).surface,
                                          rcall.bounds)
        /\ UNCHANGED NotRaster

NextRaster ==
    \/ Call_try_from_cairo_surface
    \/ Call_gen_image_from_svg
    \/ Call_gen_with_cairo
    \/ Call_gen_with_piet
    \/ Call_gen_image

SpecRaster == InitRaster /\ [][NextRaster]_vars

(***************************************************************************)
(* Scene assembly (legacy).                                                *)
(***************************************************************************)
\* default_rendernode(): an empty cairo node
default_rendernode == [kind |-> "CairoNode", bounds |-> <<0, 0, 0, 0>>]

ContainerNode(children) == [kind |-> "ContainerNode", children |-> children]

\* gtk::Snapshot::to_node(): nothing for no node, the node itself for one
\* node, a container of the nodes in the order of their appending otherwise
to_node(appended) ==
    IF Len(appended) = 0 THEN [some |-> FALSE, node |-> NoNode]
    ELSE IF Len(appended) = 1 THEN [some |-> TRUE, node |-> appended[1]]
    ELSE [some |-> TRUE, node |-> ContainerNode(appended)]

\* image_to_memtexture (legacy): no validation before the texture is built
image_to_memtexture(img) ==
    MemoryTexture_new(img.data_width, img.data_height, img.memory_format,
                      img.data, img.data_width * 4)

\* image_to_rendernode (legacy): a texture node over the bounds scaled by zoom
image_to_rendernode(img, zoom) ==
    LET t == image_to_memtexture(img)
    IN IF t.res.status # "Ok" THEN [res |-> t.res, node |-> NoNode]
       ELSE [res |-> Ok,
             node |-> [kind |-> "TextureNode", texture |-> t.texture,
                       bounds |-> [aabb |-> img.bounds, scale |-> zoom]]]

\* snapshot.append_node(&image_to_rendernode(image, zoom)) for image in images
RECURSIVE append_image_nodes(_, _, _)
append_image_nodes(appended, imgs, zoom) ==
    IF imgs = <<>> THEN [res |-> Ok, appended |-> appended]
    ELSE LET n == image_to_rendernode(Head(imgs), zoom)
         IN IF n.res.status # "Ok" THEN [res |-> n.res, appended |-> appended]
            ELSE append_image_nodes(Append(appended, n.node), Tail(imgs), zoom)

\* images_to_rendernode (legacy)
images_to_rendernode(imgs, zoom) ==
    LET a == append_image_nodes(<<>>, imgs, zoom)
    IN IF a.res.status # "Ok"
       THEN [res |-> a.res, some |-> FALSE, node |-> NoNode]
       ELSE [res |-> Ok, some |-> to_node(a.appended).some,
             node |-> to_node(a.appended).node]

\* a plausible bug: the base node is appended after the images
append_images_to_rendernode_base_last(rendernode, imgs, zoom) ==
    LET a == append_image_nodes(<<>>, imgs, zoom)
    IN IF a.res.status # "Ok"
       THEN [res |-> a.res, some |-> FALSE, node |-> NoNode]
       ELSE [res |-> Ok, some |-> TRUE,
             node |-> to_node(Append(a.appended, rendernode)).node]

\* append_images_to_rendernode (legacy)
append_images_to_rendernode(rendernode, imgs, zoom) ==
    LET a == append_image_nodes(<<rendernode>>, imgs, zoom)
    IN IF a.res.status # "Ok"
       THEN [res |-> a.res, some |-> FALSE, node |-> NoNode]
       ELSE [res |-> Ok, some |-> to_node(a.appended).some,
             node |-> to_node(a.appended).node]

\* a widget: whether it has a root, and whether the root has a renderer
Widgets ==
    { [root |-> FALSE, renderer |-> FALSE],
      [root |-> TRUE, renderer |-> FALSE],
      [root |-> TRUE, renderer |-> TRUE] }

\* a plausible bug: a widget without a root is reported as an error
rendernode_to_texture_strict(active_widget, node, viewport, rendered) ==
    IF active_widget.root /\ active_widget.renderer
    THEN [res |-> Ok, texture |-> rendered, render_calls |-> 1]
    ELSE [res |-> Err("no root"), texture |-> [some |-> FALSE], render_calls |-> 0]

\* rendernode_to_texture (legacy); rendered: what the root's renderer gives
\* back for render_texture(node, viewport), a texture or none
rendernode_to_texture(active_widget, node, viewport, rendered) ==
    IF active_widget.root /\ active_widget.renderer
    THEN [res |-> Ok, texture |-> rendered, render_calls |-> 1]
    ELSE [res |-> Ok, texture |-> [some |-> FALSE], render_calls |-> 0]

\* two valid images over the same bounds with different pixels, and the
\* default image (width and height 0), which GDK does not accept
Legacy1 ==
    LegacyImage(ImageData(4, 0), Aabb(Units(0), Units(0), Units(1), Units(1)),
                1, 1, "R8g8b8a8Premultiplied")
Legacy2 ==
    LegacyImage(ImageData(4, 1), Aabb(Units(0), Units(0), Units(1), Units(1)),
                1, 1, "B8g8r8a8Premultiplied")
Legacy3 ==
    LegacyImage(ImageData(8, 1), Aabb(Fin(1), Units(0), Units(MaxCoord), Units(1)),
                2, 1, "R8g8b8a8Premultiplied")
LegacyDefault ==
    LegacyImage(<<>>, Aabb(Units(0), Units(0), Units(0), Units(0)), 0, 0, "R8g8b8a8")

LegacySamples == {Legacy1, Legacy2, LegacyDefault}

\* base nodes: the default node, and the results of earlier compositions
BaseNodes ==
    { default_rendernode,
      image_to_rendernode(Legacy3, Scale(1, 1)).node,
      append_images_to_rendernode(default_rendernode, <<Legacy1>>, Scale(1, 1)).node }

\* a call on the scene: the images, the zoom, the node and the widget
Scall(op, imgs, zoom, node, widget, viewport) ==
    [op |-> op, images |-> imgs, zoom |-> zoom, base |-> node, widget |-> widget,
     viewport |-> viewport]

InitScene ==
    /\ overflow_checks = FALSE
    /\ scall \in {Scall("none", imgs, zoom, node, w, "None") :
                    imgs \in SeqsUpTo(LegacySamples, MaxBatch),
                    zoom \in {Scale(1, 1), Scale(2, 1)},
                    node \in BaseNodes, w \in Widgets}
    /\ sout = Idle
    /\ ImageIdle /\ BatchIdle /\ SwapIdle /\ SvgIdle /\ RasterIdle /\ FontIdle

NotScene == <<overflow_checks, imageVars, batchVars, swapVars, svgVars, rasterVars,
     fontVars>>

Call_images_to_rendernode ==
    /\ scall' = [scall EXCEPT !.op = "images_to_rendernode"]
    /\ sout' = images_to_rendernode(scall.images, scall.zoom)
    /\ UNCHANGED NotScene

Call_append_images_to_rendernode ==
    /\ scall' = [scall EXCEPT !.op = "append_images_to_rendernode"]
    /\ sout' = append_images_to_rendernode(scall.base, scall.images, scall.zoom)
    /\ UNCHANGED NotScene

Call_rendernode_to_texture ==
    \E viewport \in {"None", "Some"}, rendered \in {[some |-> FALSE], [some |-> TRUE]} :
        /\ scall' = [scall EXCEPT !.op = "rendernode_to_texture",
                                  !.viewport = viewport]
        /\ sout' = rendernode_to_texture(scall.widget, scall.base, viewport, rendered)
        /\ UNCHANGED NotScene

\* an image whose buffer is shorter than 4 * data_width * data_height
LegacyShort ==
    LegacyImage(ImageData(2, 1), Aabb(Units(0), Units(0), Units(1), Units(1)),
                1, 1, "R8g8b8a8Premultiplied")

Call_image_to_memtexture ==
    \E img \in LegacySamples \cup {LegacyShort} :
        /\ scall' = [scall EXCEPT !.op = "image_to_memtexture", !.images = <<img>>]
        /\ sout' = image_to_memtexture(img)
        /\ UNCHANGED NotScene

Call_image_to_rendernode ==
    \E img \in LegacySamples \cup {LegacyShort} :
        /\ scall' = [scall EXCEPT !.op = "image_to_rendernode", !.images = <<img>>]
        /\ sout' = image_to_rendernode(img, scall.zoom)
        /\ UNCHANGED NotScene

NextScene ==
    \/ Call_images_to_rendernode
    \/ Call_append_images_to_rendernode
    \/ Call_rendernode_to_texture
    \/ Call_image_to_memtexture
    \/ Call_image_to_rendernode

SpecScene == InitScene /\ [][NextScene]_vars

(***************************************************************************)
(* The font database: the engine's lazily initialized static, read by      *)
(* Svg::simplify from any thread, and the legacy Renderer's own database.  *)
(***************************************************************************)
InitFont ==
    /\ overflow_checks = FALSE
    /\ FontIdle
    /\ ImageIdle /\ BatchIdle /\ SwapIdle /\ SvgIdle /\ RasterIdle /\ SceneIdle

NotFont ==
    <<overflow_checks, imageVars, batchVars, swapVars, svgVars, rasterVars,
      sceneVars>>

\* simplify up to usvg::Tree::from_str(..)?: when the parser fails the call
\* returns before the font database is touched
Simplify_parse(t) ==
    /\ pc[t] = "idle"
    /\ USVG_FONTDB.reads < MaxReads
    /\ \E parsed \in BOOLEAN :
          pc' = [pc EXCEPT ![t] = IF parsed THEN "deref" ELSE "idle"]
    /\ UNCHANGED <<USVG_FONTDB, renderers, NotFont>>

\* &USVG_FONTDB: Lazy::force.  The first thread to find the cell incomplete
\* runs the initializer; one that finds it running waits for the cell
Lazy_force(t) ==
    /\ pc[t] = "deref"
    /\ IF USVG_FONTDB.cell = "Complete"
       THEN pc' = [pc EXCEPT ![t] = "convert_text"] /\ UNCHANGED USVG_FONTDB
       ELSE IF USVG_FONTDB.cell = "Incomplete"
       THEN /\ USVG_FONTDB' = [USVG_FONTDB EXCEPT !.cell = "Running"]
            /\ pc' = [pc EXCEPT ![t] = "init"]
       ELSE pc' = [pc EXCEPT ![t] = "blocked"] /\ UNCHANGED USVG_FONTDB
    /\ UNCHANGED <<renderers, NotFont>>

\* the initializer: Database::new(), load_system_fonts(), and the cell is set
Lazy_init(t) ==
    /\ pc[t] = "init"
    /\ USVG_FONTDB' = [USVG_FONTDB EXCEPT !.cell = "Complete", !.loads = @ + 1]
    /\ pc' = [pc EXCEPT ![t] = "convert_text"]
    /\ UNCHANGED <<renderers, NotFont>>

\* a waiting thread goes on once the cell is complete
Lazy_wake(t) ==
    /\ pc[t] = "blocked"
    /\ USVG_FONTDB.cell = "Complete"
    /\ pc' = [pc EXCEPT ![t] = "convert_text"]
    /\ UNCHANGED <<USVG_FONTDB, renderers, NotFont>>

\* usvg_tree.convert_text(&USVG_FONTDB): reads the database; simplify returns
Convert_text(t) ==
    /\ pc[t] = "convert_text"
    /\ USVG_FONTDB' = [USVG_FONTDB EXCEPT !.reads = @ + 1]
    /\ pc' = [pc EXCEPT ![t] = "idle"]
    /\ UNCHANGED <<renderers, NotFont>>

\* Renderer::default() (legacy): every Renderer gets usvg options of its own
\* and loads the system fonts into them when it is constructed
Renderer_default ==
    /\ Len(renderers) < MaxRenderers
    /\ renderers' = Append(renderers, [backend |-> "Librsvg", loads |-> 1, reads |-> 0])
    /\ UNCHANGED <<USVG_FONTDB, pc, NotFont>>

\* usvg::Tree::from_data(.., &self.usvg_options.to_ref()) in gen_image_resvg:
\* reads the Renderer's database
Renderer_parse(r) ==
    /\ renderers[r].reads < MaxReads
    /\ renderers' = [renderers EXCEPT ![r].reads = @ + 1]
    /\ UNCHANGED <<USVG_FONTDB, pc, NotFont>>

NextFont ==
    \/ \E t \in Threads :
          \/ Simplify_parse(t)
          \/ Lazy_force(t)
          \/ Lazy_init(t)
          \/ Lazy_wake(t)
          \/ Convert_text(t)
    \/ Renderer_default
    \/ \E r \in 1..Len(renderers) : Renderer_parse(r)

SpecFont == InitFont /\ [][NextFont]_vars

(***************************************************************************)
(* Properties of the single-image calls.                                   *)
(***************************************************************************)
\* the exact (unbounded) value of 4 * w * h is len
ExactSizeIs(w, h, len) ==
    /\ ExactSizeFits(w, h, len)
    /\ len = 0 \/ ~ExactSizeFits(w, h, len - 1)

\* C1: for an image whose rectangle bounds are valid and whose pixel_width and
\* pixel_height are positive, assert_valid succeeds if and only if the buffer
\* length is 4 * pixel_width * pixel_height; it fails whenever pixel_width or
\* pixel_height is 0.
C1_ValidIffExactSize ==
    call.op = "assert_valid" =>
        /\ ( /\ aabb_assert_valid(rect_bounds(image.rect)).status = "Ok"
             /\ image.pixel_width > 0
             /\ image.pixel_height > 0 )
           => ( out.res.status = "Ok"
                <=> ExactSizeIs(image.pixel_width, image.pixel_height,
                                Len(image.data)) )
        /\ (image.pixel_width = 0 \/ image.pixel_height = 0)
           => out.res.status # "Ok"

C3_SwapInvolution ==
    Len(bytes0) % 4 = 0 =>
        /\ Len(bytes) = Len(bytes0)
        /\ applied % 2 = 0 => bytes = bytes0
        /\ applied % 2 = 1 =>
              \A g \in 0..((Len(bytes0) \div 4) - 1) :
                  /\ bytes[4 * g + 1] = bytes0[4 * g + 3]
                  /\ bytes[4 * g + 2] = bytes0[4 * g + 2]
                  /\ bytes[4 * g + 3] = bytes0[4 * g + 1]
                  /\ bytes[4 * g + 4] = bytes0[4 * g + 4]

\* a two-pixel buffer whose swapped bytes differ, swapped twice
C3_Witness ==
    /\ applied = 2
    /\ Len(bytes0) = 8
    /\ bytes0[1] # bytes0[3]
    /\ bytes0[5] # bytes0[7]
    /\ bytes = bytes0

(***************************************************************************)
(* Properties of the batch conversion.                                     *)
(***************************************************************************)
\* the RasterImage invariants, on exact integers
IsValidImage(img) ==
    /\ aabb_assert_valid(rect_bounds(img.rect)).status = "Ok"
    /\ img.pixel_width > 0
    /\ img.pixel_height > 0
    /\ ExactSizeIs(img.pixel_width, img.pixel_height, Len(img.data))

\* the node of a valid image: its buffer as a texture of stride 4 * width,
\* placed by its rectangle
NodeOf(img) ==
    TransformNode([width |-> img.pixel_width, height |-> img.pixel_height,
                   format |-> img.memory_format, bytes |-> img.data,
                   stride |-> 4 * img.pixel_width], img.rect)

\* C10: images_to_rendernodes returns one node per image, in input order,
\* when every image is valid; otherwise it returns the error of the first
\* invalid image, converts no image after it and returns no node.
C10_BatchShortCircuit ==
    batch.calls >= 0 =>
        LET bad == {i \in 1..Len(images) : ~IsValidImage(images[i])}
        IN IF bad = {}
           THEN /\ batch.res.status = "Ok"
                /\ Len(batch.rendernodes) = Len(images)
                /\ \A i \in 1..Len(images) : batch.rendernodes[i] = NodeOf(images[i])
           ELSE LET first == CHOOSE i \in bad : \A j \in bad : i <= j
                IN /\ batch.res.status = "Err"
                   /\ batch.calls = first
                   /\ batch.rendernodes = <<>>

(***************************************************************************)
(* Properties of Svg::merge.                                               *)
(***************************************************************************)
\* the markup of the fragments, each preceded by a newline, in order
RECURSIVE MarkupOf(_)
MarkupOf(frags) ==
    IF frags = <<>> THEN <<>>
    ELSE <<"\n">> \o Head(frags).svg_data \o MarkupOf(Tail(frags))

\* the least / greatest of a non-empty set of integers
Least(S) == CHOOSE x \in S : \A y \in S : x <= y
Greatest(S) == CHOOSE x \in S : \A y \in S : x >= y

\* C4: after any number of merge calls (of 0, 1 or more fragments each) the
\* markup is self's markup followed by each merged fragment's markup, each
\* preceded by a newline, in iteration order, and the bounds are the
\* axis-aligned union of self's bounds and all merged bounds: a function of
\* the set of bounds, whatever the order and the grouping into calls; merging
\* nothing changes neither.
C4_MergeConcatUnion ==
    LET all == {svg0.bounds} \cup {merged[i].bounds : i \in 1..Len(merged)}
    IN /\ svg.svg_data = svg0.svg_data \o MarkupOf(merged)
       /\ \A i \in 1..2 :
             /\ svg.bounds.mins[i] = Fin(Least({b.mins[i].v : b \in all}))
             /\ svg.bounds.maxs[i] = Fin(Greatest({b.maxs[i].v : b \in all}))
       /\ merged = <<>> => svg = svg0

\* three different fragments were merged, and the union is larger than self's
\* bounds and than the bounds of the fragment merged last
C4_Witness ==
    /\ Len(merged) >= 3
    /\ Cardinality({merged[i] : i \in 1..Len(merged)}) >= 3
    /\ svg.bounds # svg0.bounds
    /\ svg.bounds # merged[Len(merged)].bounds
    /\ Len(svg.svg_data) > Len(svg0.svg_data) + 3

(***************************************************************************)
(* Properties of the rasterization calls.                                  *)
(***************************************************************************)
EngineOps == {"gen_image_from_svg", "gen_with_cairo", "gen_with_piet"}
TenByTen == Aabb(Units(0), Units(0), Units(10), Units(10))
HasZeroExtent(b) == aabb_is_finite(b) /\ \E i \in 1..2 : extents(b)[i].v = 0

\* C5 (as claimed): rasterizing a fragment with bounds [0,0]x[10,10] at scale
\* 2.0 yields an image with pixel_width = pixel_height = 22.
C5_TenByTenGives22 ==
    ( /\ rcall.op = "gen_image_from_svg"
      /\ rcall.bounds = TenByTen
      /\ rcall.image_scale = Scale(2, 1)
      /\ rout.res.status = "Ok" )
    => rout.image.pixel_width = 22 /\ rout.image.pixel_height = 22

\* C5 (amended): rasterizing with bounds [0,0]x[10,10] at scale 2.0 yields an
\* image with pixel_width = pixel_height = 24: the margin of 1 is added on
\* both sides of each axis, (10 + 2) * 2 = 24.
C5_TenByTenGives24 ==
    ( /\ rcall.op \in EngineOps
      /\ rcall.bounds = TenByTen
      /\ rcall.image_scale = Scale(2, 1)
      /\ rout.res.status = "Ok" )
    => /\ rout.image.pixel_width = 24
       /\ rout.image.pixel_height = 24
       /\ Len(rout.image.data) = 4 * 24 * 24

C5_Witness ==
    /\ rcall.op = "gen_image_from_svg"
    /\ rcall.bounds = TenByTen
    /\ rcall.image_scale = Scale(2, 1)
    /\ rout.res.status = "Ok"
    /\ rout.image.pixel_width = 24

\* C6: a rasterization call whose input bounds have extent 0 on some axis
\* never creates a drawing surface, and never returns an image, with a pixel
\* width or height of 0, whatever the scale factor.
C6_NoZeroSizedSurface ==
    (rcall.op # "none" /\ HasZeroExtent(rcall.bounds)) =>
        /\ rout.surface.created =>
               rout.surface.width > 0 /\ rout.surface.height > 0
        /\ (rout.res.status = "Ok" /\ rcall.op \in EngineOps) =>
               rout.image.pixel_width > 0 /\ rout.image.pixel_height > 0
        /\ (rout.res.status = "Ok" /\ rcall.op = "gen_image") =>
               rout.image.data_width > 0 /\ rout.image.data_height > 0

\* C7: gen_image_from_svg, gen_with_cairo and gen_with_piet with non-finite
\* bounds fail with the invalid-bounds error; the check follows the
\* normalization and precedes the allocation of a surface and the draw
\* procedure; no image is returned.
C7_NonFiniteBoundsRejected ==
    (rcall.op \in EngineOps /\ ~aabb_is_finite(rcall.bounds)) =>
        /\ rout.res = Err("InvalidBounds")
        /\ rout.image = NoImage
        /\ ~rout.surface.created
        /\ LET n == Len(rout.steps)
           IN /\ n >= 4
              /\ SubSeq(rout.steps, n - 3, n) = NormSteps
              /\ \A i \in 1..n :
                    rout.steps[i] \notin
                        {"surface_create", "context_new", "draw_func",
                         "rsvg_load", "render_document", "piet_context_new"}

\* a draw procedure that would succeed was handed bounds with a NaN and with
\* an infinite coordinate
C7_Witness ==
    /\ rcall.op = "gen_with_piet"
    /\ rcall.outcome = "ok"
    /\ rcall.bounds.mins[1] = NaN
    /\ rcall.bounds.maxs[2] = PosInf
    /\ rout.res.status = "Err"

(***************************************************************************)
(* Properties of the scene assembly.                                       *)
(***************************************************************************)
\* the leaf nodes of a node in the order they are painted: those of the
\* children of a container in sequence, any other node itself
RECURSIVE PaintOrder(_), PaintOrderOfAll(_)
PaintOrderOfAll(nodes) ==
    IF nodes = <<>> THEN <<>>
    ELSE PaintOrder(Head(nodes)) \o PaintOrderOfAll(Tail(nodes))
PaintOrder(node) ==
    IF node.kind = "ContainerNode" THEN PaintOrderOfAll(node.children) ELSE <<node>>

\* C8: the node append_images_to_rendernode returns paints the base node
\* first, then one texture node per image in the order of the input
\* sequence, so that a later image is painted over an earlier one.
C8_ComposeKeepsOrder ==
    (scall.op = "append_images_to_rendernode" /\ sout.res.status = "Ok") =>
        LET order == PaintOrder(sout.node)
            below == PaintOrder(scall.base)
            n == Len(scall.images)
        IN /\ sout.some
           /\ Len(order) = Len(below) + n
           /\ SubSeq(order, 1, Len(below)) = below
           /\ \A i \in 1..n :
                LET painted == order[Len(below) + i]
                IN /\ painted.kind = "TextureNode"
                   /\ painted.texture.bytes = scall.images[i].data
                   /\ painted.texture.width = scall.images[i].data_width
                   /\ painted.texture.format = scall.images[i].memory_format
                   /\ painted.bounds.aabb = scall.images[i].bounds

\* two images over the same bounds with different pixels were composed onto a
\* base: the later one is the last painted
C8_Witness ==
    /\ scall.op = "append_images_to_rendernode"
    /\ sout.res.status = "Ok"
    /\ scall.images = <<Legacy1, Legacy2>>
    /\ scall.base # default_rendernode
    /\ sout.node.children[3].texture.bytes = Legacy2.data
    /\ sout.node.children[2].texture.bytes = Legacy1.data

\* C9: rendernode_to_texture never returns an error; for a widget without a
\* root it returns Ok(None); it asks a renderer to render only when the
\* widget has a root and the root has a renderer.
C9_NoRootIsNoTexture ==
    scall.op = "rendernode_to_texture" =>
        /\ sout.res.status = "Ok"
        /\ ~scall.widget.root => ~sout.texture.some
        /\ sout.render_calls > 0 => (scall.widget.root /\ scall.widget.renderer)

C9_Witness ==
    /\ scall.op = "rendernode_to_texture"
    /\ ~scall.widget.root
    /\ sout.res.status = "Ok"
    /\ ~sout.texture.some
    /\ sout.render_calls = 0

(***************************************************************************)
(* Validation before conversion.                                           *)
(***************************************************************************)
\* a legacy image is invalid: a zero dimension, or a buffer whose length is
\* not 4 * data_width * data_height
LegacyInvalid(img) ==
    \/ img.data_width = 0
    \/ img.data_height = 0
    \/ Len(img.data) # 4 * img.data_width * img.data_height

\* C11: every conversion validates first: given an image with a zero
\* dimension or with a buffer length different from 4 * width * height, the
\* texture conversion and the scene-node conversion fail with an
\* invalid-image error and build no output.
C11_ValidatedBeforeConversion ==
    ( /\ scall.op \in {"image_to_memtexture", "image_to_rendernode"}
      /\ LegacyInvalid(scall.images[1]) )
    => sout.res.status = "Err"

(***************************************************************************)
(* Properties of the surface capture.                                      *)
(***************************************************************************)
\* the calls that build an image from a cairo surface
IsCairoCapture ==
    \/ rcall.op \in EngineOps \cup {"try_from_cairo_surface"}
    \/ rcall.op = "gen_image" /\ rcall.outcome[1] = "Librsvg"

\* the image a call returned, whichever of the two Image structs it is
ReturnedFormat == rout.image.memory_format
ReturnedData == rout.image.data

\* the number of times a step occurs in the steps of the last call
StepCount(step) == Cardinality({i \in 1..Len(rout.steps) : rout.steps[i] = step})

\* C12: every image built from a cairo surface has had the byte-order swap
\* applied exactly once after the capture: its pixels are in R, G, B, A order
\* and it is tagged with the canonical 8-bit RGBA premultiplied format.
C12_SwappedOnceAfterCapture ==
    (IsCairoCapture /\ rout.res.status = "Ok") =>
        /\ StepCount("convert_image_bgra_to_rgba") = 1
        /\ ReturnedFormat = "R8g8b8a8Premultiplied"
        /\ \A i \in 1..Len(ReturnedData) :
              ReturnedData[i] = <<"R", "G", "B", "A">>[((i - 1) % 4) + 1]

(***************************************************************************)
(* Properties of the root element of a rasterized fragment.                *)
(***************************************************************************)
\* C13: when a fragment is rasterized, the root element wrapped around it
\* has the size and the viewBox of the normalized bounds: the rectangle that
\* becomes the returned image's target rectangle.
C13_RootSizedToNormalizedBounds ==
    (rcall.op = "gen_image_from_svg" /\ rout.res.status = "Ok") =>
        /\ rout.root.wrapped
        /\ rout.root.bounds = normalized(rcall.bounds)
        /\ rout.root.viewbox = normalized(rcall.bounds)
        /\ rout.root.bounds = rect_bounds(rout.image.rect)

(***************************************************************************)
(* Properties of the font database.                                        *)
(***************************************************************************)
\* how often the system fonts were loaded by the legacy Renderers
RECURSIVE RendererLoads(_)
RendererLoads(rs) == IF rs = <<>> THEN 0 ELSE Head(rs).loads + RendererLoads(Tail(rs))

\* C14: the font database used for parsing and text conversion is
\* initialized, the system fonts loaded, exactly once in the process, on
\* first access, also when several threads access it for the first time at
\* once; no later call loads them again.
C14_FontsLoadedOnce ==
    /\ USVG_FONTDB.loads <= 1
    /\ USVG_FONTDB.cell = "Complete" <=> USVG_FONTDB.loads = 1
    /\ \A t \in Threads : pc[t] = "convert_text" => USVG_FONTDB.cell = "Complete"
    /\ USVG_FONTDB.reads > 0 => USVG_FONTDB.loads = 1
    /\ RendererLoads(renderers) <= 1

(***************************************************************************)
(* Properties of the order of the steps of a capture.                      *)
(***************************************************************************)
\* the positions of a step in the steps of the last call
StepsAt(step) == {i \in 1..Len(rout.steps) : rout.steps[i] = step}
DrawSteps == {"rsvg_load", "render_document", "stroke", "draw_func",
              "piet_context_new", "piet_finish"}
DrawnAt == {i \in 1..Len(rout.steps) : rout.steps[i] \in DrawSteps}

\* every position in S comes before every position in T, and neither is empty
Before(S, T) == S # {} /\ T # {} /\ \A i \in S, j \in T : i < j

\* C15: every operation that reads the backing buffer of a cairo surface
\* flushes the surface after the last drawing operation and before the read;
\* the steps come in the order allocate surface, apply transform, draw,
\* flush, capture, swap bytes.
C15_FlushBeforeCapture ==
    (IsCairoCapture /\ StepsAt("data") # {}) =>
        /\ Before(StepsAt("flush"), StepsAt("data"))
        /\ \A i \in DrawnAt, j \in StepsAt("flush") : i < j
        /\ rout.res.status = "Ok" =>
              /\ Before(StepsAt("surface_create"), StepsAt("scale"))
              /\ Before(StepsAt("scale") \cup StepsAt("translate"), DrawnAt)
              /\ Before(DrawnAt, StepsAt("flush"))
              /\ Before(StepsAt("data"), StepsAt("convert_image_bgra_to_rgba"))

(***************************************************************************)
(* Properties of Svg::simplify.                                            *)
(***************************************************************************)
\* C16: simplify is all-or-nothing: when it succeeds the bounds are
\* [0,0] x (the extents before the call) and the markup is what the parser
\* wrote (without the xml header); when the parser fails it returns the
\* error and leaves markup and bounds as they were before the call.
C16_SimplifyAllOrNothing ==
    simplified.op = "simplify" =>
        /\ simplified.res.status = "Ok" =>
              /\ svg.bounds.mins = <<Fin(0), Fin(0)>>
              /\ \A i \in 1..2 :
                    svg.bounds.maxs[i] = f64_sub(svg0.bounds.maxs[i], svg0.bounds.mins[i])
              /\ svg.svg_data \in {simplified.written, Tail(simplified.written)}
              /\ XmlHeader \notin {svg.svg_data[i] : i \in 1..Len(svg.svg_data)}
        /\ simplified.res.status # "Ok" =>
              /\ simplified.res.status = "Err"
              /\ svg = svg0
        /\ simplified.res.status = "Ok" <=> simplified.parsed

\* the parser failed on a fragment whose bounds do not begin at the origin
\* and whose markup is not empty
C16_Witness ==
    /\ simplified.op = "simplify"
    /\ simplified.res.status = "Err"
    /\ svg0.bounds.mins # <<Fin(0), Fin(0)>>
    /\ svg0.svg_data # <<>>
    /\ svg = svg0

(***************************************************************************)
(* Properties of the images the rasterization calls return.                *)
(***************************************************************************)
\* C17: every image a rasterization call returns, for finite bounds and any
\* scale factor, has a positive pixel width and height and a buffer of
\* 4 * pixel_width * pixel_height bytes over valid bounds, so that
\* assert_valid succeeds on it.
C17_ReturnedImageIsValid ==
    ( /\ rcall.op \in EngineOps \cup {"gen_image"}
      /\ aabb_is_finite(rcall.bounds)
      /\ rout.res.status = "Ok" ) =>
        /\ rcall.op \in EngineOps =>
              /\ rout.image.pixel_width > 0
              /\ rout.image.pixel_height > 0
              /\ Len(rout.image.data) =
                     4 * rout.image.pixel_width * rout.image.pixel_height
              /\ assert_valid(rout.image, TRUE) = Ok
              /\ assert_valid(rout.image, FALSE) = Ok
        /\ rcall.op = "gen_image" =>
              /\ rout.image.data_width > 0
              /\ rout.image.data_height > 0
              /\ Len(rout.image.data) =
                     4 * rout.image.data_width * rout.image.data_height
              /\ aabb_assert_valid(rout.image.bounds) = Ok

\* bounds without any extent were rasterized at scale 2: the margin makes it
\* an image of 4 x 4 pixels
C17_Witness ==
    /\ rcall.op = "gen_with_cairo"
    /\ HasZeroExtent(rcall.bounds)
    /\ rcall.image_scale = Scale(2, 1)
    /\ rout.res.status = "Ok"
    /\ rout.image.pixel_width = 4
    /\ Len(rout.image.data) = 4 * 4 * rout.image.pixel_height

=============================================================================
